---- MODULE Spec2Model ----
(***************************************************************************)
(* redditImageDownloader.py as a state machine.                            *)
(*                                                                         *)
(* Strings are sequences of one-character strings, so that Python's        *)
(* substring test, str.split, str.startswith, str.format and the glob      *)
(* prefix match are computed character by character.  The download         *)
(* location is one directory; `files' is the set of file names in it.     *)
(* The listing service and the web are the environment: every response    *)
(* is chosen from a small set when the request is issued.  A behaviour is  *)
(* one command line, run once and then run again with the listing          *)
(* unchanged, in a download location that may hold a file of an earlier    *)
(* run.  The path of the download location holds no glob metacharacter.   *)
(***************************************************************************)
EXTENDS Integers, Sequences, FiniteSets, TLC

\* ---------------------------------------------------------------- bounds
MaxRuns == 2
MaxListing == 2
MaxAnchors == 2

\* ------------------------------------------------------ string constants
S_reddit_ == <<"r", "e", "d", "d", "i", "t", "_">>  \* "reddit_"
S_us == <<"_">>  \* "_"
S_http == <<"h", "t", "t", "p", ":">>  \* "http:"
S_ss == <<"/", "/">>  \* "//"
P_imgur == <<"i", "m", "g", "u", "r", ".", "c", "o", "m", "/">>  \* "imgur.com/"
P_album == <<"/", "/", "i", "m", "g", "u", "r", ".", "c", "o", "m", "/", "a", "/">>  \* "//imgur.com/a/"
P_page == <<"/", "/", "i", "m", "g", "u", "r", ".", "c", "o", "m", "/">>  \* "//imgur.com/"
P_direct == <<"/", "/", "i", ".", "i", "m", "g", "u", "r", ".", "c", "o", "m", "/">>  \* "//i.imgur.com/"
P_image == <<"i", "m", "a", "g", "e", "/">>  \* "image/"

\* ------------------------------------------------- inputs (small sets)
U_album == <<"h", "t", "t", "p", ":", "/", "/", "i", "m", "g", "u", "r", ".", "c", "o", "m", "/", "a", "/", "g">>  \* "http://imgur.com/a/g"
U_page == <<"h", "t", "t", "p", ":", "/", "/", "i", "m", "g", "u", "r", ".", "c", "o", "m", "/", "p">>  \* "http://imgur.com/p"
U_direct == <<"h", "t", "t", "p", ":", "/", "/", "i", ".", "i", "m", "g", "u", "r", ".", "c", "o", "m", "/", "p", "i", "c", ".", "j", "p", "g", "?", "x", "=", "1">>  \* "http://i.imgur.com/pic.jpg?x=1"
U_www == <<"h", "t", "t", "p", ":", "/", "/", "w", "w", "w", ".", "i", "m", "g", "u", "r", ".", "c", "o", "m", "/", "x">>  \* "http://www.imgur.com/x"
U_other == <<"h", "t", "t", "p", ":", "/", "/", "x", ".", "c", "o", "m", "/", "c", "d", "_", "0", "0", "_", "p", "i", "c", ".", "j", "p", "g">>  \* "http://x.com/cd_00_pic.jpg"
H_a == <<"/", "/", "i", ".", "i", "m", "g", "u", "r", ".", "c", "o", "m", "/", "a", ".", "j", "p", "g">>  \* "//i.imgur.com/a.jpg"
H_b == <<"h", "t", "t", "p", ":", "/", "/", "i", ".", "i", "m", "g", "u", "r", ".", "c", "o", "m", "/", "b", ".", "p", "n", "g", "?", "u", "=", "/", "z", "#", "t">>  \* "http://i.imgur.com/b.png?u=/z#t"
L_redirect == <<"h", "t", "t", "p", ":", "/", "/", "i", ".", "i", "m", "g", "u", "r", ".", "c", "o", "m", "/", "a", "b", "c", ".", "j", "p", "g">>  \* "http://i.imgur.com/abc.jpg"
L_src == <<"/", "/", "i", ".", "i", "m", "g", "u", "r", ".", "c", "o", "m", "/", "d", "e", "f", ".", "p", "n", "g">>  \* "//i.imgur.com/def.png"
CT_png == <<"i", "m", "a", "g", "e", "/", "p", "n", "g">>  \* "image/png"
CT_html == <<"t", "e", "x", "t", "/", "h", "t", "m", "l">>  \* "text/html"
CL_4096 == <<"4", "0", "9", "6">>  \* "4096"
Sub_foo == <<"f", "o", "o">>  \* "foo"
Sub_foo_ab == <<"f", "o", "o", "_", "a", "b">>  \* "foo_ab"
Id_ab == <<"a", "b">>  \* "ab"
Id_cd == <<"c", "d">>  \* "cd"
Id_ef == <<"e", "f">>  \* "ef"
Id_gh == <<"g", "h">>  \* "gh"
Id_ij == <<"i", "j">>  \* "ij"
F_prev == <<"r", "e", "d", "d", "i", "t", "_", "f", "o", "o", "_", "a", "b", "_", "c", "d", "_", "0", "0", "_", "p", "i", "c", ".", "j", "p", "g">>  \* "reddit_foo_ab_cd_00_pic.jpg"

Subreddits == {Sub_foo, Sub_foo_ab}
\* the posts of the site, by rank; a post's id and url never change
Posts ==
    <<[id |-> Id_ab, url |-> U_other],
      [id |-> Id_ef, url |-> U_album],
      [id |-> Id_cd, url |-> U_direct],
      [id |-> Id_gh, url |-> U_page],
      [id |-> Id_ij, url |-> U_www]>>
Ids == {Posts[k].id : k \in 1..Len(Posts)}
Hrefs == {H_a, H_b}

\* default of the score parameter
DefaultScore == 500
Scores == {DefaultScore - 1, DefaultScore}

Submission ==
    {[id |-> Posts[k].id, url |-> Posts[k].url, score |-> sc] : k \in 1..Len(Posts), sc \in Scores}

Rank(s) == CHOOSE k \in 1..Len(Posts) : Posts[k].id = s.id

\* what the download location can hold before the first run: nothing, or a
\* file an earlier run on foo_ab left for its submission cd
InitialFiles == {{}, {F_prev}}

\* sequences over S of length 0..n
RECURSIVE SeqsUpTo(_, _)
SeqsUpTo(S, n) ==
    IF n = 0 THEN {<<>>}
    ELSE LET shorter == SeqsUpTo(S, n - 1)
         IN  shorter \cup {Append(q, x) : q \in {r \in shorter : Len(r) = n - 1}, x \in S}

\* what the listing service can return: at most `limit' distinct submissions,
\* the top ones first (by score, then by rank)
Listings ==
    {l \in SeqsUpTo(Submission, MaxListing) :
        \A a, b \in 1..Len(l) :
            a < b => /\ l[a].score >= l[b].score
                     /\ Rank(l[a]) < Rank(l[b])}

\* ------------------------------------------------------ Python str methods
\* s.startswith(p)
StartsWith(s, p) == Len(s) >= Len(p) /\ SubSeq(s, 1, Len(p)) = p

\* p in s
Contains(s, p) ==
    \E k \in 0..(Len(s) - Len(p)) : SubSeq(s, k + 1, k + Len(p)) = p

Max(S) == CHOOSE x \in S : \A y \in S : y <= x
Min(S) == CHOOSE x \in S : \A y \in S : x <= y

\* s.split(c)[-1]
SplitLast(s, c) ==
    LET at == Max({k \in 1..Len(s) : s[k] = c} \cup {0})
    IN  SubSeq(s, at + 1, Len(s))

\* s.split(c)[0]
SplitFirst(s, c) ==
    LET at == Min({k \in 1..Len(s) : s[k] = c} \cup {Len(s) + 1})
    IN  SubSeq(s, 1, at - 1)

Digit(d) == <<"0", "1", "2", "3", "4", "5", "6", "7", "8", "9">>[d + 1]

RECURSIVE Decimal(_)
Decimal(n) == IF n < 10 THEN <<Digit(n)>> ELSE Decimal(n \div 10) \o <<Digit(n % 10)>>

\* '{:02d}'.format(n), n >= 0
Format02d(n) == IF n < 10 THEN <<"0">> \o Decimal(n) ELSE Decimal(n)

\* ------------------------------------------------ helpers of the program
\* mutant: the query string is not split off
ImageFilename_KeepsQuery(image_url) == SplitFirst(SplitLast(image_url, "/"), "#")

\* image_url.split('/')[-1].split('#')[0].split('?')[0]
ImageFilename(image_url) ==
    SplitFirst(SplitFirst(SplitLast(image_url, "/"), "#"), "?")

\* 'reddit_{}_{}_{:02d}_{}'.format(subreddit, submission.id, index, image_filename)
LocalFilename(sub, id, idx, image_filename) ==
    S_reddit_ \o sub \o S_us \o id \o S_us \o Format02d(idx) \o S_us \o image_filename

\* 'reddit_{}_{}_{}'.format(subreddit, submission.id, image_filename)
LocalFilenameNonImgur(sub, id, image_filename) ==
    S_reddit_ \o sub \o S_us \o id \o S_us \o image_filename

\* mutant: the pattern names the submission before the subreddit
GlobPrefix_Swapped(sub, id) == S_reddit_ \o id \o S_us \o sub \o S_us

\* 'reddit_{}_{}_*'.format(subreddit, submission.id), without the trailing '*'
GlobPrefix(sub, id) == S_reddit_ \o sub \o S_us \o id \o S_us

\* glob.glob(os.path.join(download_location, pattern + '*')) over the files of
\* the download location: '*' matches any rest of the name
Glob(fs, prefix) == {f \in fs : StartsWith(f, prefix)}

\* mutant: one matching file is not enough
AlreadyDownloaded_NeedsTwo(fs, sub, id) == Cardinality(Glob(fs, GlobPrefix(sub, id))) > 1

\* len(glob.glob(...)) > 0
AlreadyDownloaded(fs, sub, id) == Cardinality(Glob(fs, GlobPrefix(sub, id))) > 0

\* mutant: off by one
ScoreTooLow_OffByOne(submission, sc) == submission.score < sc - 1

\* submission.score < score
ScoreTooLow(submission, sc) == submission.score < sc

\* 'imgur.com/' in submission.url
IsImgur(url) == Contains(url, P_imgur)

\* the if/elif chain of imgur_handler
HandlerBranch(url) ==
    IF Contains(url, P_album) THEN "album"
    ELSE IF Contains(url, P_page) THEN "page"
    ELSE IF Contains(url, P_direct) THEN "direct"
    ELSE "none"

\* if image_url.startswith('//'): image_url = 'http:' + image_url
PrependSchema(image_url) ==
    IF StartsWith(image_url, S_ss) THEN S_http \o image_url ELSE image_url

\* mutant: each image is put in front of the ones before it
RECURSIVE AlbumImages_Reversed(_)
AlbumImages_Reversed(matches) ==
    IF matches = <<>> THEN <<>>
    ELSE AlbumImages_Reversed(Tail(matches)) \o <<PrependSchema(Head(matches))>>

\* the loop over the album's matches, appending to images
RECURSIVE AlbumImages(_)
AlbumImages(matches) ==
    IF matches = <<>> THEN <<>>
    ELSE <<PrependSchema(Head(matches))>> \o AlbumImages(Tail(matches))

\* response.headers: a set of <<name, value>>, names in lower case (the
\* mapping of requests is case-insensitive)
HasHeader(h, name) == \E p \in h : p[1] = name
Header(h, name) == (CHOOSE p \in h : p[1] = name)[2]

Response(st, h, a, l) == [status |-> st, headers |-> h, anchors |-> a, image_src |-> l]
NoResponse == Response(0, {}, <<>>, <<>>)
NoTarget == [image_url |-> <<>>, local_filename |-> <<>>]

\* ------------------------------------------ what the web can answer
\* GET of an album page: anchors matching '.album-view-image-link a'
AlbumGetResponses ==
    {Response(200, {}, a, <<>>) : a \in SeqsUpTo(Hrefs, MaxAnchors)}
      \cup {Response(404, {}, <<>>, <<>>)}

\* HEAD of an image page, redirects not followed
PageHeadResponses ==
    {Response(301, {<<"location", L_redirect>>}, <<>>, <<>>),
     Response(301, {}, <<>>, <<>>),
     Response(200, {}, <<>>, <<>>),
     Response(404, {}, <<>>, <<>>)}

\* GET of an image page: the link elements with rel image_src
PageGetResponses ==
    {Response(200, {}, <<>>, <<L_src>>),
     Response(200, {}, <<>>, <<>>),
     Response(404, {}, <<>>, <<>>)}

\* HEAD of a non-Imgur URL
NonImgurHeadResponses ==
    {Response(200, {<<"content-type", CT_png>>}, <<>>, <<>>),
     Response(200, {<<"content-type", CT_html>>}, <<>>, <<>>),
     Response(404, {<<"content-type", CT_html>>}, <<>>, <<>>),
     Response(200, {}, <<>>, <<>>)}

\* GET of an image
DownloadResponses ==
    {Response(200, {<<"content-length", CL_4096>>}, <<>>, <<>>),
     Response(200, {}, <<>>, <<>>),
     Response(404, {<<"content-length", CL_4096>>}, <<>>, <<>>)}

\* ------------------------------------------------------------- state
VARIABLES
    files,        \* names of the files in download_location
    subreddit,    \* arguments of reddit_image_downloader
    score,
    submissions,  \* what the listing yields
    valid,        \* FALSE: the listing raises InvalidSubreddit when iterated
    pc,           \* position in the program
    i,            \* position of `submission' in submissions
    kind,         \* the branch taken for `submission'
    images,       \* image_urls returned by imgur_handler
    index,        \* enumerate(image_urls)
    target,       \* arguments of the download_image call in progress
    response,     \* the last response object
    sessions,     \* number of requests.Session objects not yet closed
    outcome,      \* how the last run ended
    error,        \* the class of the exception that ended it
    runs,         \* runs started
    reqs,         \* requests issued in this run: <<i, method, url>>
    wrote,        \* files written in this run: <<i, name>>
    invoked,      \* submissions of this run for which resolution was invoked
    named,        \* every file written so far: [sub, id, index, name]
    rerun,        \* this run repeats the previous one
    snap,         \* files when this run began
    prev          \* how the run before this one ended

vars == <<files, subreddit, score, submissions, valid, pc, i, kind, images, index,
          target, response, sessions, outcome, error, runs, reqs, wrote, invoked,
          named, rerun, snap, prev>>

submission == submissions[i]

Init ==
    /\ files \in InitialFiles
    /\ subreddit = Sub_foo
    /\ score = DefaultScore
    /\ submissions = <<>>
    /\ valid = TRUE
    /\ pc = "idle"
    /\ i = 1
    /\ kind = "none"
    /\ images = <<>>
    /\ index = 0
    /\ target = NoTarget
    /\ response = NoResponse
    /\ sessions = 0
    /\ outcome = "none"
    /\ error = "none"
    /\ runs = 0
    /\ reqs = {}
    /\ wrote = {}
    /\ invoked = {}
    /\ named = {}
    /\ rerun = FALSE
    /\ snap = files
    /\ prev = "none"

\* entry of reddit_image_downloader, up to the try
Begin(sub, sc, subs, ok, again) ==
    /\ pc = "idle"
    /\ runs < MaxRuns
    /\ subreddit' = sub
    /\ score' = sc
    /\ submissions' = subs
    /\ valid' = ok
    /\ pc' = "loop"
    /\ i' = 1
    /\ kind' = "none"
    /\ images' = <<>>
    /\ index' = 0
    /\ target' = NoTarget
    /\ response' = NoResponse
    /\ outcome' = "running"
    /\ error' = "none"
    /\ runs' = runs + 1
    /\ reqs' = {}
    /\ wrote' = {}
    /\ invoked' = {}
    /\ rerun' = again
    /\ snap' = files
    /\ prev' = outcome
    /\ UNCHANGED <<files, sessions, named>>

\* the first run, on a subreddit the listing knows
StartRun ==
    /\ runs = 0
    /\ \E sub \in Subreddits, subs \in Listings : Begin(sub, DefaultScore, subs, TRUE, FALSE)

\* the first run, on a subreddit the listing does not know
StartRunInvalid ==
    /\ runs = 0
    /\ \E sub \in Subreddits : Begin(sub, DefaultScore, <<>>, FALSE, FALSE)

\* the same command again, the listing unchanged
Rerun ==
    /\ runs >= 1
    /\ valid
    /\ Begin(subreddit, score, submissions, TRUE, TRUE)

\* an exception no handler catches: every `with' block closes its session on
\* the way out and reddit_image_downloader is left
Raise(e) ==
    /\ pc' = "idle"
    /\ outcome' = "exception"
    /\ error' = e
    /\ sessions' = 0

\* no exception in this step
NoRaise == UNCHANGED <<outcome, error>>

\* `continue', or the end of the loop body
NextSubmission ==
    /\ i' = i + 1
    /\ pc' = "loop"

\* except (praw.errors.InvalidSubreddit, praw.errors.RedirectException)
InvalidSubreddit ==
    /\ pc = "loop"
    /\ ~valid
    /\ pc' = "idle"
    /\ outcome' = "invalid"
    /\ UNCHANGED <<files, subreddit, score, submissions, valid, i, kind, images, index,
                   target, response, sessions, error, runs, reqs, wrote, invoked,
                   named, rerun, snap, prev>>

\* the for loop is exhausted: 'Completed scrape'
Completed ==
    /\ pc = "loop"
    /\ valid
    /\ i > Len(submissions)
    /\ pc' = "idle"
    /\ outcome' = "completed"
    /\ UNCHANGED <<files, subreddit, score, submissions, valid, i, kind, images, index,
                   target, response, sessions, error, runs, reqs, wrote, invoked,
                   named, rerun, snap, prev>>

AtSubmission == pc = "loop" /\ valid /\ i <= Len(submissions)

\* 'Score too low'
SkipLowScore ==
    /\ AtSubmission
    /\ ScoreTooLow(submission, score)
    /\ NextSubmission
    /\ UNCHANGED <<files, subreddit, score, submissions, valid, kind, images, index,
                   target, response, sessions, outcome, error, runs, reqs, wrote,
                   invoked, named, rerun, snap, prev>>

\* 'Already downloaded'
SkipAlreadyDownloaded ==
    /\ AtSubmission
    /\ ~ScoreTooLow(submission, score)
    /\ AlreadyDownloaded(files, subreddit, submission.id)
    /\ NextSubmission
    /\ UNCHANGED <<files, subreddit, score, submissions, valid, kind, images, index,
                   target, response, sessions, outcome, error, runs, reqs, wrote,
                   invoked, named, rerun, snap, prev>>

GoodSubmission ==
    /\ AtSubmission
    /\ ~ScoreTooLow(submission, score)
    /\ ~AlreadyDownloaded(files, subreddit, submission.id)

\* 'Good submission', an Imgur URL: imgur_handler is entered.  The album and
\* the page branch open their session; the other two return at once.
CallImgurHandler ==
    /\ GoodSubmission
    /\ IsImgur(submission.url)
    /\ invoked' = invoked \cup {i}
    /\ kind' = HandlerBranch(submission.url)
    /\ index' = 0
    /\ CASE kind' = "album" ->
              /\ pc' = "album_get"
              /\ sessions' = sessions + 1
              /\ images' = <<>>
         [] kind' = "page" ->
              /\ pc' = "page_head"
              /\ sessions' = sessions + 1
              /\ images' = <<>>
         [] kind' = "direct" ->
              /\ pc' = "for_image"
              /\ sessions' = sessions
              /\ images' = <<submission.url>>
         [] OTHER ->
              /\ pc' = "for_image"
              /\ sessions' = sessions
              /\ images' = <<>>
    /\ UNCHANGED <<files, subreddit, score, submissions, valid, i, target, response,
                   outcome, error, runs, reqs, wrote, named, rerun, snap, prev>>

\* s.get(submission_url) of the album branch, and the rest of the branch
AlbumGet ==
    /\ pc = "album_get"
    /\ reqs' = reqs \cup {<<i, "GET", submission.url>>}
    /\ \E r \in AlbumGetResponses :
         /\ response' = r
         /\ images' = IF r.status = 200 THEN AlbumImages(r.anchors) ELSE <<>>
    /\ sessions' = sessions - 1
    /\ pc' = "for_image"
    /\ UNCHANGED <<files, subreddit, score, submissions, valid, i, kind, index, target,
                   outcome, error, runs, wrote, invoked, named, rerun, snap, prev>>

\* s.head(submission_url, allow_redirects=False) of the page branch
PageHead ==
    /\ pc = "page_head"
    /\ reqs' = reqs \cup {<<i, "HEAD", submission.url>>}
    /\ \E r \in PageHeadResponses :
         /\ response' = r
         /\ IF r.status = 301
            THEN IF HasHeader(r.headers, "location")
                 THEN \* image_url is set and never appended to images
                      /\ pc' = "for_image"
                      /\ sessions' = sessions - 1
                      /\ NoRaise
                 ELSE \* KeyError
                      Raise("KeyError")
            ELSE IF r.status = 200
                 THEN /\ pc' = "page_get"
                      /\ sessions' = sessions
                      /\ NoRaise
                 ELSE /\ pc' = "for_image"
                      /\ sessions' = sessions - 1
                      /\ NoRaise
    /\ UNCHANGED <<files, subreddit, score, submissions, valid, i, kind, images, index,
                   target, runs, wrote, invoked, named, rerun, snap, prev>>

\* s.get(submission_url) of the page branch, soup.find('link', rel='image_src')
PageGet ==
    /\ pc = "page_get"
    /\ reqs' = reqs \cup {<<i, "GET", submission.url>>}
    /\ \E r \in PageGetResponses :
         /\ response' = r
         /\ IF r.image_src = <<>>
            THEN \* None['href']: TypeError
                 /\ Raise("TypeError")
                 /\ images' = images
            ELSE /\ images' = <<PrependSchema(Head(r.image_src))>>
                 /\ pc' = "for_image"
                 /\ sessions' = sessions - 1
                 /\ NoRaise
    /\ UNCHANGED <<files, subreddit, score, submissions, valid, i, kind, index, target,
                   runs, wrote, invoked, named, rerun, snap, prev>>

\* for index, image_url in enumerate(image_urls): the call of download_image,
\* which opens its session
ForImage ==
    /\ pc = "for_image"
    /\ IF index < Len(images)
       THEN LET image_url == images[index + 1]
                local_filename ==
                    LocalFilename(subreddit, submission.id, index, ImageFilename(image_url))
            IN  /\ target' = [image_url |-> image_url, local_filename |-> local_filename]
                /\ sessions' = sessions + 1
                /\ pc' = "download"
                /\ i' = i
       ELSE /\ NextSubmission
            /\ UNCHANGED <<target, sessions>>
    /\ UNCHANGED <<named, files, subreddit, score, submissions, valid, kind, images, index,
                   response, outcome, error, runs, reqs, wrote, invoked, rerun,
                   snap, prev>>

\* 'Non-imgur': the session of the else branch is opened
OpenNonImgur ==
    /\ GoodSubmission
    /\ ~IsImgur(submission.url)
    /\ invoked' = invoked \cup {i}
    /\ kind' = "nonimgur"
    /\ images' = <<>>
    /\ index' = 0
    /\ sessions' = sessions + 1
    /\ pc' = "nonimgur_head"
    /\ UNCHANGED <<files, subreddit, score, submissions, valid, i, target, response,
                   outcome, error, runs, reqs, wrote, named, rerun, snap, prev>>

\* s.head(submission.url) and the test of Content-Type; download_image is
\* called inside the `with' block
NonImgurHead ==
    /\ pc = "nonimgur_head"
    /\ reqs' = reqs \cup {<<i, "HEAD", submission.url>>}
    /\ \E r \in NonImgurHeadResponses :
         /\ response' = r
         /\ IF ~HasHeader(r.headers, "content-type")
            THEN \* KeyError
                 /\ Raise("KeyError")
                 /\ UNCHANGED <<i, target>>
            ELSE IF Contains(Header(r.headers, "content-type"), P_image)
                 THEN LET image_url == submission.url
                          local_filename ==
                              LocalFilenameNonImgur(subreddit, submission.id,
                                                    ImageFilename(image_url))
                      IN  /\ target' = [image_url |-> image_url,
                                        local_filename |-> local_filename]
                          /\ sessions' = sessions + 1
                          /\ pc' = "download"
                          /\ UNCHANGED i
                          /\ NoRaise
                 ELSE \* "'Content-Type' not suitable"
                      /\ sessions' = sessions - 1
                      /\ NextSubmission
                      /\ UNCHANGED target
                      /\ NoRaise
    /\ UNCHANGED <<named, files, subreddit, score, submissions, valid, kind, images, index,
                   runs, wrote, invoked, rerun, snap, prev>>

\* download_image after its session is open: s.get(image_url, stream=True),
\* the Content-Length header, the write when the status is 200; then the
\* return to the caller
Download ==
    /\ pc = "download"
    /\ reqs' = reqs \cup {<<i, "GET", target.image_url>>}
    /\ \E r \in DownloadResponses :
         /\ response' = r
         /\ IF ~HasHeader(r.headers, "content-length")
            THEN \* KeyError
                 /\ Raise("KeyError")
                 /\ UNCHANGED <<files, wrote, named, i, index>>
            ELSE /\ IF r.status = 200
                    THEN /\ files' = files \cup {target.local_filename}
                         /\ wrote' = wrote \cup {<<i, target.local_filename>>}
                         /\ named' = named \cup {[sub |-> subreddit, id |-> submission.id,
                                                  index |-> index,
                                                  name |-> target.local_filename]}
                    ELSE UNCHANGED <<files, wrote, named>>
                 /\ NoRaise
                 /\ IF kind = "nonimgur"
                    THEN \* both `with' blocks are left
                         /\ sessions' = sessions - 2
                         /\ NextSubmission
                         /\ index' = index
                    ELSE /\ sessions' = sessions - 1
                         /\ pc' = "for_image"
                         /\ index' = index + 1
                         /\ i' = i
    /\ UNCHANGED <<subreddit, score, submissions, valid, kind, images, target, runs,
                   invoked, rerun, snap, prev>>

\* a request that raises (connection refused, DNS failure, ...): the
\* exception leaves reddit_image_downloader
RequestRaises ==
    /\ pc \in {"album_get", "page_head", "page_get", "nonimgur_head", "download"}
    /\ reqs' = reqs \cup
         {<<i, IF pc \in {"page_head", "nonimgur_head"} THEN "HEAD" ELSE "GET",
            IF pc = "download" THEN target.image_url ELSE submission.url>>}
    /\ Raise("RequestException")
    /\ UNCHANGED <<files, subreddit, score, submissions, valid, i, kind, images, index,
                   target, response, runs, wrote, invoked, named, rerun, snap, prev>>

Next ==
    \/ StartRun
    \/ StartRunInvalid
    \/ Rerun
    \/ InvalidSubreddit
    \/ Completed
    \/ SkipLowScore
    \/ SkipAlreadyDownloaded
    \/ CallImgurHandler
    \/ AlbumGet
    \/ PageHead
    \/ PageGet
    \/ ForImage
    \/ OpenNonImgur
    \/ NonImgurHead
    \/ Download
    \/ RequestRaises

Spec == Init /\ [][Next]_vars

\* ================================================================ claims
\* the vocabulary of the claims, written without the program's helpers

\* the deduplication prefix 'reddit_{subreddit}_{submission id}_'
ClaimPrefix(sub, id) == <<"r", "e", "d", "d", "i", "t", "_">> \o sub \o <<"_">> \o id \o <<"_">>

HasFile(fs, sub, id) ==
    \E f \in fs : Len(f) >= Len(ClaimPrefix(sub, id))
                  /\ \A k \in 1..Len(ClaimPrefix(sub, id)) : f[k] = ClaimPrefix(sub, id)[k]

Touched(j) == (\E r \in reqs : r[1] = j) \/ (\E w \in wrote : w[1] = j)

\* the url cut before its query string and fragment
StripQueryFragment(url) ==
    SubSeq(url, 1, Min({k \in 1..Len(url) : url[k] \in {"?", "#"}} \cup {Len(url) + 1}) - 1)

\* the final path segment of the url after query string and fragment are stripped
ClaimBasename(url) ==
    LET u == StripQueryFragment(url)
    IN  SubSeq(u, Max({k \in 1..Len(u) : u[k] = "/"} \cup {0}) + 1, Len(u))

\* n < 100 as two decimal digits
TwoDigits(n) ==
    LET d == <<"0", "1", "2", "3", "4", "5", "6", "7", "8", "9">>
    IN  <<d[(n \div 10) + 1], d[(n % 10) + 1]>>

ClaimFilename(sub, id, n, url) ==
    ClaimPrefix(sub, id) \o TwoDigits(n) \o <<"_">> \o ClaimBasename(url)

\* url[a+1..e] is what follows the last '/' of the whole url, up to the first
\* '#' or '?' after that '/'
IsLastPiece(url, a, e) ==
    /\ a <= e
    /\ a = 0 \/ url[a] = "/"
    /\ \A k \in (a + 1)..Len(url) : url[k] # "/"
    /\ \A k \in (a + 1)..e : url[k] \notin {"#", "?"}
    /\ e = Len(url) \/ url[e + 1] \in {"#", "?"}

\* ---- C1
\* C1: when the HEAD of a single-image page answers 301 with a Location header
\* L, imgur_handler returns exactly <<L>>, and no GET was issued.
C1_RedirectReturnsLocation ==
    (/\ kind = "page"
     /\ pc = "for_image"
     /\ index = 0
     /\ response.status = 301
     /\ HasHeader(response.headers, "location"))
    => /\ images = <<Header(response.headers, "location")>>
       /\ <<i, "GET", submission.url>> \notin reqs

\* ---- C2
\* C2: no HTTP failure aborts the run: a run ends either because the listing
\* reported an invalid subreddit or after every submission was processed.
C2_RunNeverAborts ==
    (pc = "idle" /\ runs > 0)
    => \/ outcome = "invalid" /\ ~valid
       \/ outcome = "completed" /\ i = Len(submissions) + 1

\* ---- C3
\* C3: for a submission whose score is below the minimum, the run issues no
\* request, invokes no resolution and writes no file.
C3_LowScoreUntouched ==
    \A j \in 1..Len(submissions) :
        submissions[j].score < score => ~Touched(j) /\ j \notin invoked

\* a completed run over a listing with a low-score album post, in a download
\* location that held a file before and got another one from this run
C3_Witness ==
    /\ pc = "idle"
    /\ outcome = "completed"
    /\ snap # {}
    /\ wrote # {}
    /\ \E j \in 1..Len(submissions) :
         submissions[j].score < score /\ submissions[j].url = U_album

\* ---- C4
\* C4: when a submission with score >= the minimum is considered, it is
\* rejected if a file matching 'reddit_{subreddit}_{id}_' exists at that moment
\* (no resolution, no request, no write, the loop moves on), and otherwise
\* resolution is invoked for it; a rejected submission stays untouched.
C4_DedupDecides ==
    /\ [][(AtSubmission /\ submission.score >= score)
           => IF HasFile(files, subreddit, submission.id)
              THEN /\ i' = i + 1
                   /\ pc' = "loop"
                   /\ UNCHANGED <<files, reqs, wrote, invoked, sessions>>
              ELSE /\ i' = i
                   /\ i \in invoked']_vars
    /\ [](\A j \in 1..Len(submissions) : j \notin invoked => ~Touched(j))

\* one good submission was rejected for its file, another one was accepted and
\* downloaded
C4_Witness ==
    /\ \E j \in 1..Len(submissions) :
         /\ j < i
         /\ submissions[j].score >= score
         /\ j \notin invoked
         /\ HasFile(snap, subreddit, submissions[j].id)
    /\ \E j \in invoked : \E w \in wrote : w[1] = j

\* ---- C5
\* C5 as claimed: a rerun with the same listing leaves the set of files as the
\* first run left it; stated for the case most favourable to the claim, both
\* runs going through the whole listing.
C5_RerunAddsNothing ==
    (rerun /\ prev = "completed" /\ pc = "idle" /\ outcome = "completed")
    => files = snap

\* C5 as amended: in a rerun with the same listing, a submission that had a
\* file matching its prefix when the rerun began gets no resolution, no request
\* and no write, and every file the rerun adds was written for a submission
\* that had none.
C5_RerunSkipsDownloaded ==
    rerun =>
      /\ \A j \in 1..Len(submissions) :
           HasFile(snap, subreddit, submissions[j].id) => ~Touched(j) /\ j \notin invoked
      /\ \A f \in files \ snap :
           \E w \in wrote : w[2] = f /\ ~HasFile(snap, subreddit, submissions[w[1]].id)

\* a finished rerun that skipped a submission downloaded by the first run and
\* downloaded one the first run left without a file
C5_Witness ==
    /\ rerun
    /\ prev = "completed"
    /\ pc = "idle"
    /\ outcome = "completed"
    /\ files # snap
    /\ \E j \in 1..Len(submissions) :
         submissions[j].score >= score /\ HasFile(snap, subreddit, submissions[j].id)

\* ---- C6
\* C6: downloads of different (subreddit, id, index) never get the same local
\* filename, and a file written for one (subreddit, id) never matches the
\* deduplication prefix of another.
C6_FilenamesUnique ==
    /\ \A a, b \in named :
         <<a.sub, a.id, a.index>> # <<b.sub, b.id, b.index>> => a.name # b.name
    /\ \A a \in named : \A sub \in Subreddits, id \in Ids :
         <<sub, id>> # <<a.sub, a.id>> => ~HasFile({a.name}, sub, id)

\* ---- C7
\* C7 as claimed: in every branch the local filename is
\* 'reddit_{subreddit}_{id}_{index as two digits}_{basename}', the basename
\* being the last path segment after query string and fragment are stripped.
C7_FilenameEveryBranch ==
    pc = "download"
    => target.local_filename =
         ClaimFilename(subreddit, submission.id, index, target.image_url)

\* C7 as amended: for the image at index n of what imgur_handler returned the
\* local filename is 'reddit_{subreddit}_{id}_{n as two digits}_{b}', and for
\* an image of the content-type branch it is 'reddit_{subreddit}_{id}_{b}',
\* without index; b is what follows the last '/' of the whole url, cut at the
\* first '#' or '?'.
C7_Filename ==
    pc = "download"
    => \E a \in 0..Len(target.image_url), e \in 0..Len(target.image_url) :
         /\ IsLastPiece(target.image_url, a, e)
         /\ LET b == SubSeq(target.image_url, a + 1, e)
            IN  IF kind = "nonimgur"
                THEN /\ target.image_url = submission.url
                     /\ target.local_filename = ClaimPrefix(subreddit, submission.id) \o b
                ELSE /\ target.image_url = images[index + 1]
                     /\ target.local_filename =
                          ClaimPrefix(subreddit, submission.id) \o TwoDigits(index)
                            \o <<"_">> \o b

\* the second image of an album, its url carrying a '/' in the query string
C7_Witness ==
    /\ pc = "download"
    /\ kind = "album"
    /\ index = 1
    /\ target.image_url = H_b

\* ---- C8
\* the url holds none of '//imgur.com/a/', '//imgur.com/', '//i.imgur.com/'
MatchesNoHostPattern(url) ==
    \A p \in {P_album, P_page, P_direct} :
        \A k \in 0..(Len(url) - Len(p)) : SubSeq(url, k + 1, k + Len(p)) # p

\* C8: an accepted submission whose url matches none of the three host
\* patterns gets a HEAD of its url; a Content-Type holding 'image/' leads to
\* the download of that very url; one that does not leads to no download and
\* no exception.
C8_FallbackProbes ==
    /\ \A j \in 1..Len(submissions) :
         (/\ j < i
          /\ j \in invoked
          /\ MatchesNoHostPattern(submissions[j].url))
         => <<j, "HEAD", submissions[j].url>> \in reqs
    /\ (pc = "download" /\ MatchesNoHostPattern(submission.url))
         => target.image_url = submission.url
    /\ (/\ pc = "loop"
        /\ kind = "nonimgur"
        /\ HasHeader(response.headers, "content-type"))
         => /\ outcome = "running"
            /\ <<i - 1, "GET", submissions[i - 1].url>> \notin reqs

\* ---- C9
\* C9: for an album whose GET answers 200 with anchors [A, B, C], the result
\* has the same length and order, each href with 'http:' put before it when it
\* begins with '//' and unchanged otherwise, so none begins with '//'; any
\* other status gives the empty sequence.
C9_AlbumOrder ==
    (kind = "album" /\ pc = "for_image" /\ index = 0)
    => IF response.status = 200
       THEN /\ Len(images) = Len(response.anchors)
            /\ \A k \in 1..Len(images) :
                 LET X == response.anchors[k]
                 IN  /\ images[k] = IF Len(X) >= 2 /\ X[1] = "/" /\ X[2] = "/"
                                    THEN <<"h", "t", "t", "p", ":">> \o X
                                    ELSE X
                     /\ ~(images[k][1] = "/" /\ images[k][2] = "/")
       ELSE images = <<>>

\* an album of the longest length, a schema-less href first
C9_Witness ==
    /\ kind = "album"
    /\ pc = "for_image"
    /\ index = 0
    /\ response.status = 200
    /\ Len(response.anchors) = MaxAnchors
    /\ response.anchors[1] = H_a
    /\ response.anchors[MaxAnchors] = H_b
    /\ Len(images) = MaxAnchors

====
